---- MODULE Spec2Model ----
(***************************************************************************)
(* Tienda Aurelion (streamlit_app.py): the product catalog kept in a CSV   *)
(* file, the memoized load (cargar_datos under st.cache_data), the save    *)
(* (guardar_datos), the two mutations of pagina_gestionar, the filter of   *)
(* pagina_productos and the per-category analysis of pagina_estadisticas.  *)
(*                                                                         *)
(* One script run is: Main (load, empty check), then one page handler.     *)
(***************************************************************************)
EXTENDS Integers, Sequences, FiniteSets, TLC

VARIABLES
    fileExists,   \* whether ARCHIVO_CSV exists on disk
    file,         \* rows of ARCHIVO_CSV as text fields (a blank cell is "")
    memo,         \* st.cache_data entry of cargar_datos: [set, val]
    df,           \* the DataFrame of the current script run
    pc,           \* "start": before main loads; "page": a page is dispatched
    out,          \* what the last handler reported (st.error/st.success/...)
    vista,        \* what the last query page rendered
    historial,    \* history: ids of the first file, ids given by successful adds
    pedido        \* history: the last form submitted and the state it was
                  \* submitted in

vars == <<fileExists, file, memo, df, pc, out, vista, historial, pedido>>

----------------------------------------------------------------------------
(* Bounds of the model *)

MaxProducts == 3     \* add_product is not offered beyond this many rows
MaxStock == 40       \* RECEIVE is not offered beyond this stock
MaxLen == 2          \* rows of the catalogs the query pages are tried on
MaxPat == 2          \* characters of the search text

(* Program constants *)

UMBRAL_STOCK_BAJO == 20

----------------------------------------------------------------------------
(* Values *)

\* pandas' missing value: what read_csv makes of a blank cell
NaN == "NaN"

Producto(i, n, c, p, s, d, pr) ==
    [id |-> i, nombre |-> n, categoria |-> c, precio |-> p, stock |-> s,
     descripcion |-> d, proveedor |-> pr]

\* the products the initial files are made of
Pool ==
    { Producto(1, <<"a">>,      "x", 100, 5,  "d", "p"),
      Producto(2, <<"A", "B">>, "y", 50,  30, "d", "q"),
      Producto(3, <<"b">>,      "",  50,  20, "d", "p"),
      Producto(4, <<"a">>,      "x", 75,  21, "d", "q") }

RECURSIVE SeqsOver(_, _)
\* the sequences of at most n elements of S
SeqsOver(S, n) ==
    IF n = 0 THEN {<<>>}
    ELSE LET shorter == SeqsOver(S, n - 1)
         IN  shorter \cup
             { Append(s, x) : s \in {t \in shorter : Len(t) = n - 1},
                              x \in S }

Range(s) == { s[i] : i \in 1..Len(s) }

Distinct(s) == \A i, j \in 1..Len(s) : i # j => s[i] # s[j]

Column(rows, col) == [i \in 1..Len(rows) |-> rows[i][col]]

RECURSIVE SumSeq(_)
SumSeq(s) == IF s = <<>> THEN 0 ELSE s[1] + SumSeq(Tail(s))

SetMax(S) == CHOOSE m \in S : \A x \in S : x <= m
SetMin(S) == CHOOSE m \in S : \A x \in S : m <= x

----------------------------------------------------------------------------
(* Catalog store: cargar_datos and guardar_datos *)

\* pd.read_csv on the rows of the file: a blank text cell becomes NaN (the
\* names of the files modelled here are never blank)
ReadCell(v) == IF v = "" THEN NaN ELSE v

ReadCsv(rows) ==
    [i \in 1..Len(rows) |->
        [rows[i] EXCEPT !.categoria = ReadCell(@), !.proveedor = ReadCell(@),
                        !.descripcion = ReadCell(@)]]

\* DataFrame.to_csv: NaN is written as a blank cell
WriteCell(v) == IF v = NaN THEN "" ELSE v

ToCsv(d) ==
    [i \in 1..Len(d) |->
        [d[i] EXCEPT !.categoria = WriteCell(@), !.proveedor = WriteCell(@),
                     !.descripcion = WriteCell(@)]]

\* the body of cargar_datos: the DataFrame read, or the empty DataFrame when
\* the file is missing
LoadFile == IF fileExists THEN ReadCsv(file) ELSE <<>>

\* cargar_datos under st.cache_data: the memoized value when there is one
cargar_datos == IF memo.set THEN memo.val ELSE LoadFile

\* How df.to_csv(ARCHIVO_CSV) can end.  The file is opened for writing in
\* place: w = -1 is a failure before the open, w < Len(d) a failure after w
\* rows were written, w = Len(d) the write of every row.
Escrituras(d) == -1..Len(d)

\* what to_csv leaves in the file
ArchivoTras(d, w) ==
    IF w = -1 THEN [exists |-> fileExists, rows |-> file]
              ELSE [exists |-> TRUE, rows |-> SubSeq(ToCsv(d), 1, w)]

\* the return value of guardar_datos: True unless to_csv raised
Guardado(d, w) == w = Len(d)

\* guardar_datos(d) when to_csv ends as w
guardar_datos(d, w) ==
    /\ w \in Escrituras(d)
    /\ fileExists' = ArchivoTras(d, w).exists
    /\ file' = ArchivoTras(d, w).rows

\* st.cache_data.clear()
CacheClear == [set |-> FALSE, val |-> <<>>]

----------------------------------------------------------------------------
(* Reports *)

NoOut == [evento |-> "none", id |-> 0, guardado |-> FALSE, exito |-> FALSE,
          aviso |-> FALSE]

Report(e, i, g, x, a) ==
    [evento |-> e, id |-> i, guardado |-> g, exito |-> x, aviso |-> a]

\* the widgets of pagina_productos left as they are: no filter but the price
\* range, which is always applied
Filtro(c, pr, lo, hi, st, b) ==
    [categoria |-> c, proveedor |-> pr, precio_min |-> lo, precio_max |-> hi,
     stock_filter |-> st, busqueda |-> b]

NoFiltro == Filtro("Todas", "Todos", 0, 0, "Todos", <<>>)

\* metricas is <<>> when the page rendered no metrics, <<m>> when it did
NoVista == [pagina |-> "none", filtro |-> NoFiltro, filas |-> <<>>,
            metricas |-> <<>>, por_categoria |-> {}, por_proveedor |-> {}]

\* the form submitted to pagina_gestionar, with the state of the run
Pedido(t, n, d, op, c) ==
    [tipo |-> t, nombre |-> n, descripcion |-> d, operacion |-> op, cantidad |-> c,
     df |-> df, file |-> file, fileExists |-> fileExists, memo |-> memo,
     historial |-> historial]

NoPedido ==
    [tipo |-> "none", nombre |-> <<>>, descripcion |-> "", operacion |-> "",
     cantidad |-> 0, df |-> <<>>, file |-> <<>>, fileExists |-> FALSE,
     memo |-> CacheClear, historial |-> <<>>]

----------------------------------------------------------------------------
(* main: load, and return when nothing was loaded *)

\* faulty variant: main returns only when the file is missing, not when the
\* DataFrame loaded is empty
MainSoloArchivo ==
    /\ pc = "start"
    /\ df' = cargar_datos
    /\ memo' = [set |-> TRUE, val |-> cargar_datos]
    /\ IF ~fileExists
          THEN /\ out' = Report("sin_datos", 0, FALSE, FALSE, FALSE)
               /\ pc' = "start"
          ELSE /\ out' = NoOut
               /\ pc' = "page"
    /\ vista' = NoVista
    /\ pedido' = NoPedido
    /\ UNCHANGED <<fileExists, file, historial>>

Main ==
    /\ pc = "start"
    /\ df' = cargar_datos
    /\ memo' = [set |-> TRUE, val |-> cargar_datos]
    /\ IF cargar_datos = <<>>
          THEN /\ out' = Report("sin_datos", 0, FALSE, FALSE, FALSE)
               /\ pc' = "start"
          ELSE /\ out' = NoOut
               /\ pc' = "page"
    /\ vista' = NoVista
    /\ pedido' = NoPedido
    /\ UNCHANGED <<fileExists, file, historial>>

----------------------------------------------------------------------------
(* pagina_gestionar *)

Categorias(d) == Range(Column(d, "categoria"))
Proveedores(d) == Range(Column(d, "proveedor"))

\* sorted(values) raises TypeError when NaN (a float) meets a str
Sortable(S) == ~(NaN \in S /\ S # {NaN})

\* the form of tab1 and the selectbox of tab2 are rendered
GestionarRenders(d) == Sortable(Categorias(d)) /\ Sortable(Proveedores(d))

\* faulty variant: only the name is required
ObligatoriosSoloNombre(nombre, descripcion) == nombre # <<>>

\* line 436: the check of the required fields
Obligatorios(nombre, descripcion) == nombre # <<>> /\ descripcion # ""

\* faulty variant: the id after the one of the last row
NuevoIdUltimo(d) == d[Len(d)].id + 1

\* line 439
NuevoId(d) == SetMax(Range(Column(d, "id"))) + 1

AgregarProducto(nombre, categoria, precio, stock, descripcion, proveedor, w) ==
    /\ pc = "page"
    /\ GestionarRenders(df)
    /\ Len(df) < MaxProducts
    /\ categoria \in Categorias(df)
    /\ proveedor \in Proveedores(df)
    /\ pc' = "start"
    /\ vista' = NoVista
    /\ pedido' = Pedido("agregar", nombre, descripcion, "", 0)
    /\ df' = df
    /\ IF ~Obligatorios(nombre, descripcion)
          THEN /\ out' = Report("obligatorios", 0, FALSE, FALSE, FALSE)
               /\ UNCHANGED <<fileExists, file, memo, historial>>
          ELSE LET nuevo_id == NuevoId(df)
                   df_actualizado ==
                       Append(df, Producto(nuevo_id, nombre, categoria, precio,
                                           stock, descripcion, proveedor))
                   ok == Guardado(df_actualizado, w)
               IN  /\ guardar_datos(df_actualizado, w)
                   /\ out' = Report("agregado", nuevo_id, TRUE, ok, FALSE)
                   /\ memo' = IF ok THEN CacheClear ELSE memo
                   /\ historial' =
                          IF ok
                             THEN [historial EXCEPT !.nuevos = Append(@, nuevo_id)]
                             ELSE historial

\* line 461: dict(zip(df['nombre'], df['id'])): a later row of the same name
\* replaces the earlier one
ProductosDict(d) ==
    [n \in Range(Column(d, "nombre")) |->
        d[SetMax({i \in 1..Len(d) : d[i].nombre = n})].id]

\* line 469: df[df['id'] == producto_id].iloc[0]
ProductoDe(d, producto_id) ==
    d[SetMin({i \in 1..Len(d) : d[i].id = producto_id})]

\* faulty variant: a sale is never refused
NuevoStockSinControl(producto, operacion, cantidad) ==
    CASE operacion = "RECEIVE" ->
             [definido |-> TRUE, valor |-> producto.stock + cantidad]
      [] operacion = "SELL" ->
             [definido |-> TRUE, valor |-> producto.stock - cantidad]
      [] operacion = "SET" ->
             [definido |-> TRUE, valor |-> cantidad]

\* faulty variant: a sale beyond the stock sells what there is
NuevoStockHastaCero(producto, operacion, cantidad) ==
    CASE operacion = "RECEIVE" ->
             [definido |-> TRUE, valor |-> producto.stock + cantidad]
      [] operacion = "SELL" ->
             IF cantidad > producto.stock
                THEN [definido |-> TRUE, valor |-> 0]
                ELSE [definido |-> TRUE, valor |-> producto.stock - cantidad]
      [] operacion = "SET" ->
             [definido |-> TRUE, valor |-> cantidad]

\* lines 492-503: the new stock, or None
NuevoStock(producto, operacion, cantidad) ==
    CASE operacion = "RECEIVE" ->
             [definido |-> TRUE, valor |-> producto.stock + cantidad]
      [] operacion = "SELL" ->
             IF cantidad > producto.stock
                THEN [definido |-> FALSE, valor |-> 0]
                ELSE [definido |-> TRUE, valor |-> producto.stock - cantidad]
      [] operacion = "SET" ->
             [definido |-> TRUE, valor |-> cantidad]

\* faulty variant: the rows are selected by the name of the product
SetStockPorNombre(d, producto_id, nuevo_stock) ==
    [i \in 1..Len(d) |->
        IF d[i].nombre = ProductoDe(d, producto_id).nombre
           THEN [d[i] EXCEPT !.stock = nuevo_stock]
           ELSE d[i]]

\* line 506: df.loc[df['id'] == producto_id, 'stock'] = nuevo_stock
SetStock(d, producto_id, nuevo_stock) ==
    [i \in 1..Len(d) |->
        IF d[i].id = producto_id THEN [d[i] EXCEPT !.stock = nuevo_stock]
                                 ELSE d[i]]

\* the number_input of the form: min_value=0 for SET, min_value=1 otherwise
CantidadValida(operacion, cantidad) ==
    IF operacion = "SET" THEN cantidad >= 0 ELSE cantidad >= 1

ActualizarStock(producto_seleccionado, operacion, cantidad, w) ==
    /\ pc = "page"
    /\ GestionarRenders(df)
    /\ producto_seleccionado \in DOMAIN ProductosDict(df)
    /\ producto_seleccionado # <<>>
    /\ CantidadValida(operacion, cantidad)
    /\ LET producto_id == ProductosDict(df)[producto_seleccionado]
           producto == ProductoDe(df, producto_id)
           nuevo_stock == NuevoStock(producto, operacion, cantidad)
       IN  /\ nuevo_stock.definido => nuevo_stock.valor <= MaxStock
           /\ pc' = "start"
           /\ vista' = NoVista
           /\ pedido' = Pedido("actualizar", producto_seleccionado, "", operacion,
                               cantidad)
           /\ UNCHANGED historial
           /\ IF ~nuevo_stock.definido
                 THEN /\ out' = Report("sin_stock", producto_id, FALSE, FALSE, FALSE)
                      /\ UNCHANGED <<fileExists, file, memo, df>>
                 ELSE /\ df' = SetStock(df, producto_id, nuevo_stock.valor)
                      /\ guardar_datos(df', w)
                      /\ out' = Report("stock", producto_id, TRUE, Guardado(df', w),
                                       Guardado(df', w)
                                       /\ nuevo_stock.valor <= UMBRAL_STOCK_BAJO)
                      /\ memo' = IF Guardado(df', w) THEN CacheClear ELSE memo

\* sorted() of the categories or suppliers raises: the page shows the exception
GestionarError ==
    /\ pc = "page"
    /\ ~GestionarRenders(df)
    /\ pc' = "start"
    /\ out' = Report("TypeError", 0, FALSE, FALSE, FALSE)
    /\ vista' = NoVista
    /\ pedido' = NoPedido
    /\ UNCHANGED <<fileExists, file, memo, df, historial>>

----------------------------------------------------------------------------
(* pagina_inicio *)

StockTotal(d) == SumSeq(Column(d, "stock"))

ValorTotal(d) == SumSeq([i \in 1..Len(d) |-> d[i].precio * d[i].stock])

\* Series.mean() of a non-empty column, as the fraction sum / count
Mean(s) == [num |-> SumSeq(s), den |-> Len(s)]

StockBajo(d) == SelectSeq(d, LAMBDA r : r.stock <= UMBRAL_STOCK_BAJO)

\* Series.nunique(): NaN is not counted
NUnique(s) == Cardinality(Range(s) \ {NaN})

\* mostrar_metricas_principales
MetricasPrincipales(d) ==
    [total |-> Len(d), stock_total |-> StockTotal(d), valor_total |-> ValorTotal(d),
     categorias |-> NUnique(Column(d, "categoria")),
     stock_bajo |-> Len(StockBajo(d))]

PaginaInicio ==
    /\ pc = "page"
    /\ pc' = "start"
    /\ out' = NoOut
    /\ vista' = [NoVista EXCEPT !.pagina = "inicio",
                                !.metricas = <<MetricasPrincipales(df)>>,
                                !.filas = StockBajo(df)]
    /\ pedido' = NoPedido
    /\ UNCHANGED <<fileExists, file, memo, df, historial>>

----------------------------------------------------------------------------
(* pagina_productos *)

\* Series == value on an object column: a missing value equals nothing
PdEq(a, b) == a # NaN /\ b # NaN /\ a = b

Lower(c) == CASE c = "A" -> "a" [] c = "B" -> "b" [] OTHER -> c

\* re.compile(busqueda): "(" opens a group that nothing closes
RegexValid(pat) == \A k \in 1..Len(pat) : pat[k] # "("

\* one pattern character against one character, under re.IGNORECASE
CharMatch(p, c) == p = "." \/ Lower(p) = Lower(c)

\* regex.search(nombre) for a pattern of literals and dots
RegexSearch(pat, nombre) ==
    \E i \in 0..(Len(nombre) - Len(pat)) :
        \A k \in 1..Len(pat) : CharMatch(pat[k], nombre[i + k])

\* lines 243-264: the filters, one after the other
Filtrar(d, f) ==
    LET d1 == IF f.categoria # "Todas"
                 THEN SelectSeq(d, LAMBDA r : PdEq(r.categoria, f.categoria))
                 ELSE d
        d2 == IF f.proveedor # "Todos"
                 THEN SelectSeq(d1, LAMBDA r : PdEq(r.proveedor, f.proveedor))
                 ELSE d1
        d3 == SelectSeq(d2, LAMBDA r : r.precio >= f.precio_min
                                    /\ r.precio <= f.precio_max)
        d4 == CASE f.stock_filter = "Bajo" ->
                       SelectSeq(d3, LAMBDA r : r.stock <= UMBRAL_STOCK_BAJO)
                [] f.stock_filter = "Saludable" ->
                       SelectSeq(d3, LAMBDA r : r.stock > UMBRAL_STOCK_BAJO)
                [] OTHER -> d3
    IN  IF f.busqueda # <<>>
           THEN SelectSeq(d4, LAMBDA r : RegexSearch(f.busqueda, r.nombre))
           ELSE d4

\* faulty variant: the metrics are computed for every result
MetricasSiempre(d) ==
    <<[stock_total |-> StockTotal(d), valor_total |-> ValorTotal(d),
       precio_promedio |-> Mean(Column(d, "precio"))]>>

\* lines 269-294: the metrics of a non-empty result, nothing for an empty one
MetricasFiltrado(d) ==
    IF Len(d) > 0
       THEN <<[stock_total |-> StockTotal(d), valor_total |-> ValorTotal(d),
               precio_promedio |-> Mean(Column(d, "precio"))]>>
       ELSE <<>>

\* the values the widgets of the sidebar offer for d
FiltrosDe(d, precios, textos) ==
    { Filtro(c, pr, lo, hi, st, b) :
        c \in {"Todas"} \cup Categorias(d),
        pr \in {"Todos"} \cup Proveedores(d),
        lo \in precios, hi \in precios,
        st \in {"Todos", "Bajo", "Saludable"},
        b \in textos }

PrecioMin(d) == SetMin(Range(Column(d, "precio")))
PrecioMax(d) == SetMax(Range(Column(d, "precio")))

\* the slider: a range within [min, max] of the prices of d
RangoValido(d, f) ==
    /\ PrecioMin(d) <= f.precio_min
    /\ f.precio_min <= f.precio_max
    /\ f.precio_max <= PrecioMax(d)

PaginaProductos(f) ==
    /\ pc = "page"
    /\ Sortable(Categorias(df)) /\ Sortable(Proveedores(df))
    /\ f.categoria \in {"Todas"} \cup Categorias(df)
    /\ f.proveedor \in {"Todos"} \cup Proveedores(df)
    /\ RangoValido(df, f)
    /\ pc' = "start"
    /\ IF f.busqueda # <<>> /\ ~RegexValid(f.busqueda)
          THEN /\ out' = Report("re.error", 0, FALSE, FALSE, FALSE)
               /\ vista' = [NoVista EXCEPT !.filtro = f]
          ELSE /\ out' = NoOut
               /\ vista' = [NoVista EXCEPT !.pagina = "productos",
                                           !.filtro = f,
                                           !.filas = Filtrar(df, f),
                                           !.metricas = MetricasFiltrado(Filtrar(df, f))]
    /\ pedido' = NoPedido
    /\ UNCHANGED <<fileExists, file, memo, df, historial>>

\* line 218 or 222: sorted() raises, the page shows the exception
ProductosError ==
    /\ pc = "page"
    /\ ~(Sortable(Categorias(df)) /\ Sortable(Proveedores(df)))
    /\ pc' = "start"
    /\ out' = Report("TypeError", 0, FALSE, FALSE, FALSE)
    /\ vista' = NoVista
    /\ pedido' = NoPedido
    /\ UNCHANGED <<fileExists, file, memo, df, historial>>

----------------------------------------------------------------------------
(* pagina_estadisticas *)

\* df.groupby(col): one group per value of the column, in row order; the rows
\* whose key is missing (NaN) belong to no group
Claves(d, col) == Range(Column(d, col)) \ {NaN}

Grupo(d, col, k) == SelectSeq(d, LAMBDA r : r[col] = k)

\* lines 329-341
AnalisisCategoria(d) ==
    { [clave |-> k,
       cantidad |-> Len(Grupo(d, "categoria", k)),
       stock_total |-> StockTotal(Grupo(d, "categoria", k)),
       precio_promedio |-> Mean(Column(Grupo(d, "categoria", k), "precio")),
       valor_total |-> ValorTotal(Grupo(d, "categoria", k))] :
      k \in Claves(d, "categoria") }

\* lines 357-369
AnalisisProveedor(d) ==
    { [clave |-> k,
       cantidad |-> Len(Grupo(d, "proveedor", k)),
       stock_total |-> StockTotal(Grupo(d, "proveedor", k)),
       categorias |-> NUnique(Column(Grupo(d, "proveedor", k), "categoria")),
       valor_total |-> ValorTotal(Grupo(d, "proveedor", k))] :
      k \in Claves(d, "proveedor") }

\* lines 304-322
EstadisticasGenerales(d) ==
    [total |-> Len(d), stock_total |-> StockTotal(d),
     stock_promedio |-> Mean(Column(d, "stock")),
     valor_total |-> ValorTotal(d),
     precio_promedio |-> Mean(Column(d, "precio")),
     stock_bajo |-> Len(StockBajo(d))]

PaginaEstadisticas ==
    /\ pc = "page"
    /\ pc' = "start"
    /\ out' = NoOut
    /\ vista' = [NoVista EXCEPT !.pagina = "estadisticas",
                                !.metricas = <<EstadisticasGenerales(df)>>,
                                !.por_categoria = AnalisisCategoria(df),
                                !.por_proveedor = AnalisisProveedor(df)]
    /\ pedido' = NoPedido
    /\ UNCHANGED <<fileExists, file, memo, df, historial>>

----------------------------------------------------------------------------
(* The application: script runs over one file *)

\* the files the application is started on: the rows of tienda_aurelion.csv
\* are any rows with distinct ids; the file may also be missing or hold the
\* header alone
Archivo(ids) == [i \in 1..Len(ids) |-> CHOOSE r \in Pool : r.id = ids[i]]

ArchivosIniciales ==
    { Archivo(<<>>), Archivo(<<2, 1>>), Archivo(<<3>>), Archivo(<<1, 3>>) }

HistorialDe(rows) == [originales |-> Column(rows, "id"), nuevos |-> <<>>]

Init ==
    /\ fileExists \in BOOLEAN
    /\ file \in ArchivosIniciales
    /\ ~fileExists => file = <<>>
    /\ memo = CacheClear
    /\ df = <<>>
    /\ pc = "start"
    /\ out = NoOut
    /\ vista = NoVista
    /\ historial = HistorialDe(file)
    /\ pedido = NoPedido

\* the values entered in the forms of pagina_gestionar
Nombres == {<<>>, <<"a">>}
Descripciones == {"", "d"}
Precios == {1}
Stocks == {0, 25}
Operaciones == {"RECEIVE", "SELL", "SET"}
Cantidades == {0, 25}

\* the widgets of pagina_productos as first rendered
FiltroInicial(d) == Filtro("Todas", "Todos", PrecioMin(d), PrecioMax(d), "Todos", <<>>)

Agregar ==
    \E nombre \in Nombres, descripcion \in Descripciones, precio \in Precios,
       stock \in Stocks, categoria \in Categorias(df), proveedor \in Proveedores(df),
       w \in -1..MaxProducts :
        AgregarProducto(nombre, categoria, precio, stock, descripcion, proveedor, w)

Actualizar ==
    \E n \in DOMAIN ProductosDict(df), op \in Operaciones, c \in Cantidades,
       w \in -1..MaxProducts :
        ActualizarStock(n, op, c, w)

Next ==
    \/ Main
    \/ PaginaInicio
    \/ PaginaProductos(FiltroInicial(df))
    \/ ProductosError
    \/ PaginaEstadisticas
    \/ Agregar
    \/ Actualizar
    \/ GestionarError

Spec == Init /\ [][Next]_vars

----------------------------------------------------------------------------
(* The query pages over bounded catalogs *)

\* the files of at most n rows of Pool, their ids distinct and increasing
Catalogos(n) ==
    { c \in SeqsOver(Pool, n) :
        \A i, j \in 1..Len(c) : i < j => c[i].id < c[j].id }

\* the search texts: letters and dots, and one text that is no regular
\* expression
Textos == SeqsOver({"b", "."}, MaxPat) \cup {<<"(">>}

InitQuery ==
    /\ fileExists = TRUE
    /\ file \in Catalogos(MaxLen)
    /\ memo = CacheClear
    /\ df = <<>>
    /\ pc = "start"
    /\ out = NoOut
    /\ vista = NoVista
    /\ historial = HistorialDe(file)
    /\ pedido = NoPedido

Explorar ==
    \E f \in FiltrosDe(df, Range(Column(df, "precio")), Textos) : PaginaProductos(f)

NextQuery ==
    \/ Main
    \/ Explorar
    \/ ProductosError
    \/ PaginaEstadisticas

SpecQuery == InitQuery /\ [][NextQuery]_vars

----------------------------------------------------------------------------
(* Properties *)

Ids(d) == Column(d, "id")

StocksNoNegativos(d) == \A i \in 1..Len(d) : d[i].stock >= 0

\* C1: after any sequence of add_product and adjust_stock operations on a
\* catalog whose stocks are all >= 0, every product of the in-memory catalog
\* (the DataFrame of the run and the memoized one) and of the persisted file
\* has stock >= 0.
C1_StockNoNegativo ==
    /\ StocksNoNegativos(df)
    /\ StocksNoNegativos(memo.val)
    /\ StocksNoNegativos(file)

\* a sale of the whole stock of a product was saved
C1_Witness ==
    /\ out.evento = "stock" /\ out.exito
    /\ \E i \in 1..Len(file) : file[i].id = out.id /\ file[i].stock = 0

\* the stock, when the stock form was submitted, of the product it names
StockPedido == ProductoDe(pedido.df, ProductosDict(pedido.df)[pedido.nombre]).stock

\* nothing but the report differs from the state the form was submitted in
SinMutacion ==
    /\ df = pedido.df
    /\ file = pedido.file /\ fileExists = pedido.fileExists
    /\ memo = pedido.memo
    /\ historial = pedido.historial

\* C2: adjust_stock with SELL and amount > current stock reports the
\* insufficient-stock error and mutates nothing: the catalog is unchanged, no
\* save is made, the file is unchanged and the memo is not invalidated.
C2_VentaInsuficiente ==
    (/\ pedido.tipo = "actualizar"
     /\ pedido.operacion = "SELL"
     /\ pedido.cantidad > StockPedido)
    => /\ out.evento = "sin_stock"
       /\ ~out.guardado
       /\ SinMutacion
       /\ memo.set

C2_Witness ==
    /\ pedido.tipo = "actualizar" /\ pedido.operacion = "SELL"
    /\ pedido.cantidad > StockPedido /\ StockPedido > 0
    /\ out.evento = "sin_stock"

\* C3: the ids given by the successful add_product calls are, in call order,
\* max_original_id + 1, + 2, ...; the catalog of every run holds the original
\* ids followed by them, all distinct, and so does the file after a
\* successful add.
C3_IdsConsecutivos ==
    LET orig == historial.originales
        nuevos == historial.nuevos
        m == SetMax(Range(orig) \cup {0})
    IN  /\ nuevos = [k \in 1..Len(nuevos) |-> m + k]
        /\ pc = "page" => Ids(df) = orig \o nuevos /\ Distinct(Ids(df))
        /\ (out.evento = "agregado" /\ out.exito)
              => /\ fileExists
                 /\ Ids(file) = orig \o nuevos
                 /\ Distinct(Ids(file))
                 /\ out.id = nuevos[Len(nuevos)]

\* two products were added one after the other to a catalog whose largest id
\* is not in its last row, or to a catalog of one row
C3_Witness ==
    /\ Len(historial.nuevos) >= 2
    /\ out.evento = "agregado" /\ out.exito

\* C4 (as claimed): the memo is invalidated right after every successful save,
\* so the next load returns the catalog just saved, and a memoized snapshot
\* never differs from what the file holds.
C4_MemoIgualArchivo ==
    /\ (out.guardado /\ out.exito /\ pc = "start") => ~memo.set
    /\ memo.set => memo.val = LoadFile

\* C5 (as claimed): a save that fails leaves the file exactly as it was
\* before the save started, whether add_product or adjust_stock issued it.
C5_FalloSinEscritura ==
    (out.guardado /\ ~out.exito)
        => (file = pedido.file /\ fileExists = pedido.fileExists)

\* C6: add_product with an empty name or an empty description fails with the
\* validation error and mutates nothing: no id is allocated, no product is
\* appended, no save is made, the catalog and the file are unchanged.
C6_ValidacionSinMutacion ==
    (/\ pedido.tipo = "agregar"
     /\ (pedido.nombre = <<>> \/ pedido.descripcion = ""))
    => /\ out.evento = "obligatorios"
       /\ out.id = 0 /\ ~out.guardado
       /\ SinMutacion

\* a form with a name and no description was submitted
C6_Witness ==
    /\ pedido.tipo = "agregar"
    /\ pedido.nombre # <<>> /\ pedido.descripcion = ""
    /\ out.evento = "obligatorios"

\* the stock the claim gives for operation op with amount c on stock s
StockEsperado(s, op, c) ==
    CASE op = "RECEIVE" -> s + c
      [] op = "SELL" -> s - c
      [] op = "SET" -> c

\* C7: a successful adjust_stock(id, op, amount) saves the catalog it was
\* given with the stock of the product of that id set to stock + amount
\* (RECEIVE), stock - amount (SELL) or amount (SET), every other stock, every
\* other field, the number of rows and their order being unchanged.
C7_SoloElStock ==
    (pedido.tipo = "actualizar" /\ out.evento = "stock" /\ out.exito)
    => LET antes == ToCsv(pedido.df)
           esperado == StockEsperado(StockPedido, pedido.operacion, pedido.cantidad)
       IN  /\ fileExists
           /\ Len(file) = Len(antes)
           /\ \A i \in 1..Len(antes) :
                 file[i] = IF antes[i].id = out.id
                              THEN [antes[i] EXCEPT !.stock = esperado]
                              ELSE antes[i]

\* a stock was saved in a catalog of several products, two of the same name
C7_Witness ==
    /\ pedido.tipo = "actualizar" /\ out.evento = "stock" /\ out.exito
    /\ \E i, j \in 1..Len(file) : i # j /\ file[i].nombre = file[j].nombre

----------------------------------------------------------------------------
(* Properties of the query pages *)

\* busqueda is a substring of nombre, letter case apart
Contiene(busqueda, nombre) ==
    \E i \in 0..(Len(nombre) - Len(busqueda)) :
        \A k \in 1..Len(busqueda) : Lower(busqueda[k]) = Lower(nombre[i + k])

\* the product satisfies every active predicate of the filter
Satisface(r, f) ==
    /\ f.categoria # "Todas" => PdEq(r.categoria, f.categoria)
    /\ f.proveedor # "Todos" => PdEq(r.proveedor, f.proveedor)
    /\ f.precio_min <= r.precio /\ r.precio <= f.precio_max
    /\ f.stock_filter = "Bajo" => r.stock <= 20
    /\ f.stock_filter = "Saludable" => r.stock > 20
    /\ f.busqueda # <<>> => Contiene(f.busqueda, r.nombre)

\* C8 (as claimed): the filter returns exactly the products that satisfy every
\* active predicate (the name predicate being a case-insensitive substring),
\* in catalog order, and filtering its result again returns the same result.
C8_FiltroExacto ==
    /\ out.evento # "re.error"
    /\ vista.pagina = "productos"
          => /\ vista.filas = SelectSeq(df, LAMBDA r : Satisface(r, vista.filtro))
             /\ Filtrar(vista.filas, vista.filtro) = vista.filas

RECURSIVE SumaStockGrupos(_)
SumaStockGrupos(G) ==
    IF G = {} THEN 0
    ELSE LET g == CHOOSE x \in G : TRUE
         IN  g.stock_total + SumaStockGrupos(G \ {g})

\* C9 (as claimed): the stock totals of the groups of group_by(catalog,
\* category) add up to the stock of the whole catalog.
C9_SumaPorCategoria ==
    vista.pagina = "estadisticas"
        => SumaStockGrupos(vista.por_categoria) = StockTotal(df)

----------------------------------------------------------------------------
(* Properties of main *)

\* C11: nothing is run on an empty catalog.  When the load fails or returns
\* no row, main reports the error and returns before a page is dispatched: a
\* page is dispatched, a query page renders and a form is handled only on a
\* catalog of at least one row; add_product takes max(id) + 1 over at least
\* one id; and every save was issued from a non-empty load.
C11_NadaSobreVacio ==
    /\ (memo.set /\ df = <<>>)
          => (pc = "start" /\ out.evento = "sin_datos" /\ vista = NoVista
              /\ pedido = NoPedido)
    /\ pc = "page" => (df # <<>> /\ memo.set /\ memo.val = df)
    /\ vista.pagina # "none" => df # <<>>
    /\ pedido.tipo # "none" => (pedido.df # <<>> /\ pedido.memo.val = pedido.df)
    /\ out.evento = "agregado"
          => (Len(pedido.df) >= 1
              /\ out.id = SetMax(Range(Ids(pedido.df))) + 1)
    /\ out.guardado => (pedido.tipo # "none" /\ Len(pedido.df) >= 1)
    /\ out.evento = "sin_datos"
          => (df = <<>> /\ ~out.guardado /\ historial.nuevos = <<>>
              /\ file = <<>>)

\* the file holds the header alone: main loaded it, reported and returned
C11_Witness ==
    /\ fileExists /\ file = <<>>
    /\ memo.set /\ df = <<>>
    /\ out.evento = "sin_datos" /\ pc = "start"

====
